---------------------------- MODULE Spec2Model ----------------------------
(***************************************************************************)
(* Model of AllocationScript_v2.py: the identifier normaliser, the         *)
(* reviewer pool builder, the exclusion resolver, the load-aware selector  *)
(* and the allocation driver (main).                                       *)
(*                                                                         *)
(* Python values are modelled as records tagged by "kind".  A text value   *)
(* is a sequence of one-character strings.  Optional[int] is a sequence of *)
(* length 0 (None) or 1 (the integer).                                     *)
(***************************************************************************)
EXTENDS Integers, Sequences, FiniteSets, TLC

(***************************************************************************)
(* Bounds of the model.                                                    *)
(***************************************************************************)
MaxLen == 4
MaxNum == 8
MaxReviewers == 2
MaxApps == 2
ScenApps == 3

(***************************************************************************)
(* Python values handed to normalize_id.                                   *)
(***************************************************************************)
None == <<>>

Some(n) == <<n>>

PyNone == [kind |-> "none"]

PyNaN == [kind |-> "nan"]

PyInf == [kind |-> "inf"]

PyInt(n) == [kind |-> "int", v |-> n]

\* A finite real number, given in tenths: PyFloat(70) is 7.0, PyFloat(75) is 7.5.
PyFloat(t) == [kind |-> "float", tenths |-> t]

PyStr(s) == [kind |-> "str", s |-> s]

Digits == {"0", "5", "7"}

Letters == {"a", "b", "c"}

Alphabet == Digits \cup Letters \cup {".", " ", ",", "-"}

DigitVal(c) == CASE c = "0" -> 0 [] c = "1" -> 1 [] c = "2" -> 2 [] c = "3" -> 3
                 [] c = "4" -> 4 [] c = "5" -> 5 [] c = "6" -> 6 [] c = "7" -> 7
                 [] c = "8" -> 8 [] c = "9" -> 9

\* The character classes \d and \s (restricted to the characters of the model).
DigitClass == {"0", "1", "2", "3", "4", "5", "6", "7", "8", "9"}

SpaceClass == {" "}

IsSpace(c) == c \in SpaceClass

(***************************************************************************)
(* Text helpers: str.strip, str.replace(",", ""), int(digits).             *)
(***************************************************************************)
RECURSIVE LStrip(_)
LStrip(s) == IF s # <<>> /\ IsSpace(Head(s)) THEN LStrip(Tail(s)) ELSE s

RECURSIVE RStrip(_)
RStrip(s) == IF s # <<>> /\ IsSpace(s[Len(s)]) THEN RStrip(SubSeq(s, 1, Len(s) - 1)) ELSE s

Strip(s) == RStrip(LStrip(s))

RemoveCommas(s) == SelectSeq(s, LAMBDA c : c # ",")

\* Length of the longest prefix of s whose characters all lie in the class S.
RECURSIVE SpanLen(_, _)
SpanLen(s, S) == IF s # <<>> /\ Head(s) \in S THEN 1 + SpanLen(Tail(s), S) ELSE 0

Drop(s, n) == SubSeq(s, n + 1, Len(s))

Take(s, n) == SubSeq(s, 1, n)

RECURSIVE IntOfDigits(_)
IntOfDigits(ds) == IF ds = <<>> THEN 0
                   ELSE 10 * IntOfDigits(Take(ds, Len(ds) - 1)) + DigitVal(ds[Len(ds)])

IsDot(c) == c = "."

(***************************************************************************)
(* ID_PATTERN_INT_OR_FLOAT = ^\s*(\d+)(?:\.0+)?\s*$                        *)
(* PatternMatch(s) is None when the pattern does not match and             *)
(* Some(group 1) when it does.                                             *)
(***************************************************************************)
PatternMatch(s) ==
    LET a == Drop(s, SpanLen(s, SpaceClass))
        nd == SpanLen(a, DigitClass)
        grp == Take(a, nd)
        b == Drop(a, nd)
        \* the optional group (?:\.0+)
        nz == IF b # <<>> /\ IsDot(Head(b)) THEN SpanLen(Tail(b), {"0"}) ELSE 0
        c == IF nz > 0 THEN Drop(b, 1 + nz) ELSE b
        d == Drop(c, SpanLen(c, SpaceClass))
    IN IF nd > 0 /\ d = <<>> THEN Some(grp) ELSE None

(***************************************************************************)
(* float(text) for texts over Alphabet: surrounding white space, an        *)
(* optional sign, digits with an optional decimal point and at least one   *)
(* digit.  The result is None for ValueError, otherwise                    *)
(* Some([neg, int, fracZero]): the sign, the integer part and whether the  *)
(* fractional part is zero.                                                *)
(***************************************************************************)
FloatParse(s) ==
    LET a == Strip(s)
        neg == a # <<>> /\ Head(a) = "-"
        sgn == a # <<>> /\ Head(a) \in {"-", "+"}
        b == IF sgn THEN Tail(a) ELSE a
        ni == SpanLen(b, DigitClass)
        ip == Take(b, ni)
        c == Drop(b, ni)
        dot == c # <<>> /\ IsDot(Head(c))
        f == IF dot THEN Tail(c) ELSE c
        nf == SpanLen(f, DigitClass)
        fp == Take(f, nf)
        rest == Drop(f, nf)
    IN IF rest = <<>> /\ (ni + nf > 0)
       THEN Some([neg |-> neg, int |-> IntOfDigits(ip),
                  fracZero |-> SpanLen(fp, {"0"}) = nf])
       ELSE None

(***************************************************************************)
(* normalize_id                                                            *)
(***************************************************************************)
\* int(x) of a real given in tenths: truncation toward zero.
TruncTenths(t) == IF t >= 0 THEN t \div 10 ELSE -((-t) \div 10)

\* Variant of normalize_id that truncates reals instead of rejecting fractions.
normalize_id_trunc(val) ==
    IF val.kind \in {"none", "nan"} THEN None
    ELSE IF val.kind = "int" THEN Some(val.v)
    ELSE IF val.kind = "inf" THEN None
    ELSE IF val.kind = "float" THEN Some(TruncTenths(val.tenths))
    ELSE LET s == Strip(val.s)
             s_no_commas == RemoveCommas(s)
             m == PatternMatch(s_no_commas)
             f == FloatParse(s_no_commas)
         IN IF s = <<>> THEN None
            ELSE IF m # None THEN Some(IntOfDigits(m[1]))
            ELSE IF f # None
                 THEN Some(IF f[1].neg THEN -f[1].int ELSE f[1].int)
            ELSE None

normalize_id(val) ==
    IF val.kind \in {"none", "nan"} THEN None
    ELSE IF val.kind = "int" THEN Some(val.v)
    ELSE IF val.kind = "inf" THEN None
    ELSE IF val.kind = "float"
         THEN IF val.tenths % 10 = 0 THEN Some(TruncTenths(val.tenths)) ELSE None
    ELSE LET s == Strip(val.s)
             s_no_commas == RemoveCommas(s)
             m == PatternMatch(s_no_commas)
             f == FloatParse(s_no_commas)
         IN IF s = <<>> THEN None
            ELSE IF m # None THEN Some(IntOfDigits(m[1]))
            ELSE IF f # None /\ f[1].fracZero
                 THEN Some(IF f[1].neg THEN -f[1].int ELSE f[1].int)
            ELSE None


(***************************************************************************)
(* random.sample and random.shuffle.  The argument r stands for the values *)
(* the random stream delivers to the call: the successive results of       *)
(* randbelow are the digits of r in the mixed radix n, n-1, ...            *)
(***************************************************************************)
RECURSIVE Fact(_)
Fact(n) == IF n <= 1 THEN 1 ELSE n * Fact(n - 1)

\* Number of outcomes of random.sample(pool, m) for Len(pool) = n.
RECURSIVE NumArr(_, _)
NumArr(n, m) == IF m = 0 THEN 1 ELSE n * NumArr(n - 1, m - 1)

\* for i in range(m): j = randbelow(n - i); result[i] = pool[j]; pool[j] = pool[n-i-1]
RECURSIVE sample(_, _, _)
sample(pool, m, r) ==
    IF m = 0 THEN <<>>
    ELSE LET n == Len(pool)
             j == (r % n) + 1
             rest == Take([pool EXCEPT ![j] = pool[n]], n - 1)
         IN <<pool[j]>> \o sample(rest, m - 1, r \div n)

\* for i in reversed(range(1, len(x))): j = randbelow(i + 1); x[i], x[j] = x[j], x[i]
RECURSIVE shuffle(_, _)
shuffle(x, r) ==
    IF Len(x) <= 1 THEN x
    ELSE LET n == Len(x)
             j == (r % n) + 1
             y == [x EXCEPT ![n] = x[j], ![j] = x[n]]
         IN shuffle(Take(y, n - 1), r \div n) \o <<y[n]>>

Min(a, b) == IF a <= b THEN a ELSE b

Range(s) == {s[i] : i \in 1..Len(s)}

(***************************************************************************)
(* load_reviewer_ids: a file is a sequence of rows, a row a sequence of    *)
(* text cells.  Empty rows and rows whose first cell is not an identifier  *)
(* are skipped; duplicates collapse to the first occurrence.               *)
(***************************************************************************)
RECURSIVE ReadIds(_)
ReadIds(rows) ==
    IF rows = <<>> THEN <<>>
    ELSE LET row == Head(rows)
             rid == IF row = <<>> THEN None ELSE normalize_id(PyStr(row[1]))
         IN (IF rid = None THEN <<>> ELSE <<rid[1]>>) \o ReadIds(Tail(rows))

RECURSIVE Uniq(_)
Uniq(ids) ==
    IF ids = <<>> THEN <<>>
    ELSE LET init == Uniq(Take(ids, Len(ids) - 1))
             rid == ids[Len(ids)]
         IN IF rid \in Range(init) THEN init ELSE Append(init, rid)

\* Variant of load_reviewer_ids that keeps duplicates.
load_reviewer_ids_nodedup(rows) == ReadIds(rows)

load_reviewer_ids(rows) == Uniq(ReadIds(rows))

(***************************************************************************)
(* get_exclusion_cols and build_exclusion_set                              *)
(***************************************************************************)
EXCLUSION_COL_CANDIDATES == <<"Reviewer 1", "Reviewer 2", "Reviewer 3">>

get_exclusion_cols(cols) == SelectSeq(EXCLUSION_COL_CANDIDATES, LAMBDA c : c \in cols)

\* row is a function from the exclusion columns of the table to Python values.
build_exclusion_set(row, exclusion_cols) ==
    {normalize_id(row[exclusion_cols[i]])[1] :
        i \in {j \in 1..Len(exclusion_cols) : normalize_id(row[exclusion_cols[j]]) # None}}

(***************************************************************************)
(* choose_reviewers_with_minmax.  loads is the load table (a function on   *)
(* the pool), min_load and max_load are Optional[int], r1 and r2 are the   *)
(* values of the random stream consumed by the first and the second call   *)
(* of the random module.                                                   *)
(***************************************************************************)
Get(loads, rid) == IF rid \in DOMAIN loads THEN loads[rid] ELSE 0

\* Variant of CappedPool that admits reviewers whose load equals max_load.
CappedPool_le(eligible_pool, loads, max_load) ==
    IF max_load # None
    THEN SelectSeq(eligible_pool, LAMBDA rid : Get(loads, rid) <= max_load[1])
    ELSE eligible_pool

CappedPool(eligible_pool, loads, max_load) ==
    IF max_load # None
    THEN SelectSeq(eligible_pool, LAMBDA rid : Get(loads, rid) < max_load[1])
    ELSE eligible_pool

UnderMin(pool, loads, min_load) == SelectSeq(pool, LAMBDA rid : Get(loads, rid) < min_load[1])

AtOrAboveMin(pool, loads, min_load) == SelectSeq(pool, LAMBDA rid : Get(loads, rid) >= min_load[1])

MinDisabled(min_load) == min_load = None \/ min_load[1] <= 0

\* Variant of the selector that never fills from the at-or-above-minimum group.
choose_reviewers_nofill(eligible_pool, kk, loads, min_load, max_load, r1, r2) ==
    LET pool == CappedPool(eligible_pool, loads, max_load)
    IN IF pool = <<>> THEN <<>>
       ELSE IF MinDisabled(min_load) THEN sample(pool, Min(kk, Len(pool)), r1)
       ELSE LET under_min == shuffle(UnderMin(pool, loads, min_load), r1)
            IN Take(under_min, Min(kk, Len(under_min)))

\* Variant of the selector that fills from the at-or-above-minimum group first.
choose_reviewers_abovefirst(eligible_pool, kk, loads, min_load, max_load, r1, r2) ==
    LET pool == CappedPool(eligible_pool, loads, max_load)
    IN IF pool = <<>> THEN <<>>
       ELSE IF MinDisabled(min_load) THEN sample(pool, Min(kk, Len(pool)), r1)
       ELSE LET under_min == shuffle(UnderMin(pool, loads, min_load), r1)
                at_or_above_min == shuffle(AtOrAboveMin(pool, loads, min_load), r2)
                take == Min(kk, Len(at_or_above_min))
                need == kk - take
                fill_take == Min(need, Len(under_min))
            IN Take(at_or_above_min, take) \o
               (IF need > 0 /\ under_min # <<>> THEN Take(under_min, fill_take)
                ELSE <<>>)

choose_reviewers_with_minmax(eligible_pool, kk, loads, min_load, max_load, r1, r2) ==
    LET pool == CappedPool(eligible_pool, loads, max_load)
    IN IF pool = <<>> THEN <<>>
       ELSE IF MinDisabled(min_load) THEN sample(pool, Min(kk, Len(pool)), r1)
       ELSE LET under_min == shuffle(UnderMin(pool, loads, min_load), r1)
                at_or_above_min == shuffle(AtOrAboveMin(pool, loads, min_load), r2)
                take == Min(kk, Len(under_min))
                need == kk - take
                fill_take == Min(need, Len(at_or_above_min))
            IN Take(under_min, take) \o
               (IF need > 0 /\ at_or_above_min # <<>> THEN Take(at_or_above_min, fill_take)
                ELSE <<>>)

\* Variant of SelectorCall in which the selector shuffles the list it was given.
SelectorCall_inplace(eligible_pool, kk, loads, min_load, max_load, r1, r2) ==
    [picks |-> choose_reviewers_with_minmax(eligible_pool, kk, loads,
                                            min_load, max_load, r1, r2),
     eligible_pool |-> shuffle(eligible_pool, r1),
     loads |-> loads]

\* A call of the selector as the caller sees it: the returned list, and the
\* caller's eligible list and load table after the call.  The selector
\* builds pool, under_min and at_or_above_min as new lists (lines 109, 111,
\* 121, 122); random.sample leaves its argument alone and random.shuffle is
\* applied to the new lists only; loads is read with loads.get and never
\* assigned.
SelectorCall(eligible_pool, kk, loads, min_load, max_load, r1, r2) ==
    [picks |-> choose_reviewers_with_minmax(eligible_pool, kk, loads,
                                            min_load, max_load, r1, r2),
     eligible_pool |-> eligible_pool,
     loads |-> loads]

\* The ranges of the random values the selector consumes.
Draws1(eligible_pool, kk, loads, min_load, max_load) ==
    LET pool == CappedPool(eligible_pool, loads, max_load)
    IN IF pool = <<>> THEN {0}
       ELSE IF MinDisabled(min_load) THEN 0..(NumArr(Len(pool), Min(kk, Len(pool))) - 1)
       ELSE 0..(Fact(Len(UnderMin(pool, loads, min_load))) - 1)

Draws2(eligible_pool, kk, loads, min_load, max_load) ==
    LET pool == CappedPool(eligible_pool, loads, max_load)
    IN IF pool = <<>> \/ MinDisabled(min_load) THEN {0}
       ELSE 0..(Fact(Len(AtOrAboveMin(pool, loads, min_load))) - 1)

(***************************************************************************)
(* The run of main.                                                        *)
(***************************************************************************)
VARIABLES
    pc,               \* position in main: "read", "load", "shuffle", "loop", "done", "error"
    k,                \* ASSIGNMENTS_PER_APPLICATION
    min_load,         \* MIN_ASSIGNMENTS_PER_REVIEWER (Optional)
    max_load,         \* MAX_ASSIGNMENTS_PER_REVIEWER (Optional)
    columns,          \* the columns of the application table
    exclusion_cols,   \* the exclusion columns found in the application table
    advisory,         \* TRUE when the "No exclusion columns found" warning was printed
    reviewer_ids,     \* result of load_reviewer_ids
    global_reviewers, \* the shuffled pool
    loads,            \* the load table
    output_rows,      \* the records built so far
    warnings,         \* the under-fill warnings recorded so far
    output_file,      \* None until the output table is written, then Some(rows)
    error,            \* None, or Some(name of the exception that ended the run)
    trace,            \* per processed application: what the selector was given and returned
    nval,             \* input of the normaliser run
    nres              \* result of the normaliser run: <<>> before the call, <<result>> after

vars == <<pc, k, min_load, max_load, columns, exclusion_cols, advisory, reviewer_ids,
          global_reviewers, loads, output_rows, warnings, output_file, error,
          trace, nval, nres>>

\* The configuration of the source, and smaller ones that reach the
\* maximum load within MaxApps applications.
Configs ==
    { [k |-> 3, min_load |-> Some(3), max_load |-> Some(5)],
      [k |-> 1, min_load |-> Some(1), max_load |-> Some(2)],
      [k |-> 2, min_load |-> None, max_load |-> Some(1)],
      [k |-> 1, min_load |-> Some(0), max_load |-> None] }

\* Column sets of the application table.
ColumnSets ==
    { {}, {"Reviewer 1", "Reviewer 2"}, {"Application ID"},
      {"Application ID", "Reviewer 1", "Reviewer 3"} }

\* First cells of the rows of the reviewers file.
ReviewerCells ==
    { <<"5">>, <<"7">>, <<"5", "0">>, <<"7", ".", "0">>, <<"a">> }

ReviewerRows == {<<>>} \cup {<<c>> : c \in ReviewerCells}

ReviewerFiles == UNION {[1..n -> ReviewerRows] : n \in 0..MaxReviewers}

\* Values of the exclusion cells of an application record.
ExclusionCells ==
    { PyNaN, PyInt(5), PyFloat(70), PyStr(<<"5", "0">>), PyStr(<<"a">>) }

IdleInit ==
    /\ nval = PyNone
    /\ nres = <<>>

Init ==
    /\ pc = "read"
    /\ \E c \in Configs : k = c.k /\ min_load = c.min_load /\ max_load = c.max_load
    /\ columns = {}
    /\ exclusion_cols = <<>>
    /\ advisory = FALSE
    /\ reviewer_ids = <<>>
    /\ global_reviewers = <<>>
    /\ loads = <<>>
    /\ output_rows = <<>>
    /\ warnings = <<>>
    /\ output_file = None
    /\ error = None
    /\ trace = <<>>
    /\ IdleInit

Raise(e) ==
    /\ pc' = "error"
    /\ error' = Some(e)

\* Variant of ReadApplicants that treats a table without exclusion columns
\* as a fatal error.
ReadApplicants_strict ==
    /\ pc = "read"
    /\ \E cols \in ColumnSets :
         /\ columns' = cols
         /\ IF "Application ID" \notin cols
            THEN /\ Raise("ValueError: Application ID")
                 /\ UNCHANGED <<exclusion_cols, advisory>>
            ELSE IF get_exclusion_cols(cols) = <<>>
            THEN /\ Raise("ValueError: No exclusion columns")
                 /\ advisory' = TRUE
                 /\ UNCHANGED exclusion_cols
            ELSE /\ exclusion_cols' = get_exclusion_cols(cols)
                 /\ advisory' = FALSE
                 /\ pc' = "load"
                 /\ UNCHANGED error
    /\ UNCHANGED <<k, min_load, max_load, reviewer_ids, global_reviewers, loads,
                   output_rows, warnings, output_file, trace, nval, nres>>

\* main, lines 151-164: read the application table, check the identifier
\* column, find the exclusion columns.
ReadApplicants ==
    /\ pc = "read"
    /\ \E cols \in ColumnSets :
         /\ columns' = cols
         /\ IF "Application ID" \notin cols
            THEN /\ Raise("ValueError: Application ID")
                 /\ UNCHANGED <<exclusion_cols, advisory>>
            ELSE /\ exclusion_cols' = get_exclusion_cols(cols)
                 /\ advisory' = (get_exclusion_cols(cols) = <<>>)
                 /\ pc' = "load"
                 /\ UNCHANGED error
    /\ UNCHANGED <<k, min_load, max_load, reviewer_ids, global_reviewers, loads,
                   output_rows, warnings, output_file, trace, nval, nres>>

\* main, lines 166-168: build the reviewer pool.
LoadReviewers ==
    /\ pc = "load"
    /\ \E file \in ReviewerFiles :
         \E ids \in {load_reviewer_ids(file)} :
            /\ reviewer_ids' = ids
            /\ IF ids = <<>>
               THEN Raise("ValueError: No reviewer IDs")
               ELSE pc' = "shuffle" /\ UNCHANGED error
    /\ UNCHANGED <<k, min_load, max_load, columns, exclusion_cols, advisory, global_reviewers,
                   loads, output_rows, warnings, output_file, trace, nval, nres>>

\* main, lines 170-177: shuffle the pool, start the load table at zero.
ShufflePool ==
    /\ pc = "shuffle"
    /\ \E r \in 0..(Fact(Len(reviewer_ids)) - 1) :
         \E shuffled \in {shuffle(reviewer_ids, r)} :
            /\ global_reviewers' = shuffled
            /\ loads' = [rid \in Range(shuffled) |-> 0]
    /\ output_rows' = <<>>
    /\ warnings' = <<>>
    /\ pc' = "loop"
    /\ UNCHANGED <<k, min_load, max_load, columns, exclusion_cols, advisory, reviewer_ids,
                   output_file, error, trace, nval, nres>>

Slot(picks, i) == IF i <= Len(picks) THEN PyInt(picks[i]) ELSE PyStr(<<>>)

\* Variant of Commit that sets the load to one instead of incrementing it.
Commit_set(ld, picks) == [x \in DOMAIN ld \cup Range(picks) |->
                            IF x \in Range(picks) THEN 1 ELSE ld[x]]

\* for rid in picks: loads[rid] = loads.get(rid, 0) + 1
RECURSIVE Commit(_, _)
Commit(ld, picks) ==
    IF picks = <<>> THEN ld
    ELSE LET rid == Head(picks)
             ld1 == [x \in DOMAIN ld \cup {rid} |-> IF x = rid THEN Get(ld, rid) + 1 ELSE ld[x]]
         IN Commit(ld1, Tail(picks))

\* Variant of EligiblePool that forgets the exclusion filter.
EligiblePool_nofilter(pool, excluded) == pool

\* main, line 184
EligiblePool(pool, excluded) == SelectSeq(pool, LAMBDA rid : rid \notin excluded)

\* Variant of Warn that records a warning only for an empty selection.
Warn_empty(ws, app_id, picks, kk) ==
    IF Len(picks) = 0
    THEN Append(ws, [app_id |-> app_id, got |-> Len(picks), needed |-> kk])
    ELSE ws

\* main, lines 194-198
Warn(ws, app_id, picks, kk) ==
    IF Len(picks) < kk
    THEN Append(ws, [app_id |-> app_id, got |-> Len(picks), needed |-> kk])
    ELSE ws

\* main, line 200
Conflict(picks, excluded) == Range(picks) \cap excluded # {}

\* Variant of OutRecord that emits only the filled slots.
OutRecord_nopad(app_id, picks, excluded, eligible, kk) ==
    [app_id |-> app_id,
     assigned |-> [i \in 1..Len(picks) |-> Slot(picks, i)],
     excluded_count |-> Cardinality(excluded),
     eligible_pool_size |-> Len(eligible),
     used_fallback |-> Len(picks) < kk]

\* Variant of OutRecord that reports the size of the selection as the pool size.
OutRecord_picksize(app_id, picks, excluded, eligible, kk) ==
    [app_id |-> app_id,
     assigned |-> [i \in 1..kk |-> Slot(picks, i)],
     excluded_count |-> Cardinality(excluded),
     eligible_pool_size |-> Len(picks),
     used_fallback |-> Len(picks) < kk]

\* main, lines 209-214
OutRecord(app_id, picks, excluded, eligible, kk) ==
    [app_id |-> app_id,
     assigned |-> [i \in 1..kk |-> Slot(picks, i)],
     excluded_count |-> Cardinality(excluded),
     eligible_pool_size |-> Len(eligible),
     used_fallback |-> Len(picks) < kk]

\* main, lines 194-215: record the warning, then commit the selection and
\* emit the record, or abort on a conflict (lines 200-203).  eligible is the
\* list handed to the selector, call what the selector left (SelectorCall).
FinishRow(app_id, excluded, eligible, call) ==
    /\ warnings' = Warn(warnings, app_id, call.picks, k)
    /\ trace' = Append(trace, [excluded |-> excluded, eligible |-> eligible,
                               loads |-> loads, picks |-> call.picks,
                               eligible_after |-> call.eligible_pool,
                               loads_after |-> call.loads])
    /\ IF Conflict(call.picks, excluded)
       THEN /\ Raise("RuntimeError: Conflict detected")
            /\ loads' = call.loads
            /\ UNCHANGED output_rows
       ELSE /\ loads' = Commit(call.loads, call.picks)
            /\ output_rows' = Append(output_rows,
                                     OutRecord(app_id, call.picks, excluded,
                                               call.eligible_pool, k))
            /\ UNCHANGED <<pc, error>>

\* main, lines 186-192: the call of the selector on the eligible pool.
SelectFor(app_id, excluded, eligible) ==
    \E r1 \in Draws1(eligible, k, loads, min_load, max_load),
       r2 \in Draws2(eligible, k, loads, min_load, max_load) :
        \E call \in {SelectorCall(eligible, k, loads, min_load, max_load, r1, r2)} :
            FinishRow(app_id, excluded, eligible, call)

\* main, lines 179-215: one iteration of the loop over the application rows.
\* The application identifier of the i-th record is i.
ProcessRow ==
    /\ pc = "loop"
    /\ Len(trace) < MaxApps
    /\ \E row \in [Range(exclusion_cols) -> ExclusionCells] :
         \E excluded \in {build_exclusion_set(row, exclusion_cols)} :
            \E eligible \in {EligiblePool(global_reviewers, excluded)} :
                SelectFor(Len(trace) + 1, excluded, eligible)
    /\ UNCHANGED <<k, min_load, max_load, columns, exclusion_cols, advisory, reviewer_ids,
                   global_reviewers, output_file, nval, nres>>

\* Variant of WriteOutput that waits until every reviewer reached the minimum.
WriteOutput_minreached ==
    /\ pc = "loop"
    /\ MinDisabled(min_load) \/ \A rid \in DOMAIN loads : loads[rid] >= min_load[1]
    /\ output_file' = Some(output_rows)
    /\ pc' = "done"
    /\ UNCHANGED <<k, min_load, max_load, columns, exclusion_cols, advisory, reviewer_ids,
                   global_reviewers, loads, output_rows, warnings, error, trace,
                   nval, nres>>

\* Variant of WriteOutput that writes the table also after a fatal error.
WriteOutput_finally ==
    /\ pc \in {"loop", "error"}
    /\ output_file = None
    /\ output_file' = Some(output_rows)
    /\ pc' = IF pc = "error" THEN "error" ELSE "done"
    /\ UNCHANGED <<k, min_load, max_load, columns, exclusion_cols, advisory, reviewer_ids,
                   global_reviewers, loads, output_rows, warnings, error, trace,
                   nval, nres>>

\* main, line 217: the application table is exhausted, write the output table.
WriteOutput ==
    /\ pc = "loop"
    /\ output_file' = Some(output_rows)
    /\ pc' = "done"
    /\ UNCHANGED <<k, min_load, max_load, columns, exclusion_cols, advisory, reviewer_ids,
                   global_reviewers, loads, output_rows, warnings, error, trace,
                   nval, nres>>

Next ==
    \/ ReadApplicants
    \/ LoadReviewers
    \/ ShufflePool
    \/ ProcessRow
    \/ WriteOutput

Spec == Init /\ [][Next]_vars

(***************************************************************************)
(* The normaliser on its own: one call of normalize_id on a value of one   *)
(* of the kinds it accepts.                                                *)
(***************************************************************************)
Texts == UNION {[1..n -> Alphabet] : n \in 0..MaxLen}

NormInputs ==
    {PyNone, PyNaN, PyInf}
        \cup {PyInt(n) : n \in (-MaxNum)..MaxNum}
        \cup {PyFloat(t) : t \in (-10 * MaxNum)..(10 * MaxNum)}
        \cup {PyStr(s) : s \in Texts}

InitNorm ==
    /\ pc = "normalize"
    /\ k = 0 /\ min_load = None /\ max_load = None
    /\ columns = {}
    /\ exclusion_cols = <<>>
    /\ advisory = FALSE
    /\ reviewer_ids = <<>>
    /\ global_reviewers = <<>>
    /\ loads = <<>>
    /\ output_rows = <<>>
    /\ warnings = <<>>
    /\ output_file = None
    /\ error = None
    /\ trace = <<>>
    /\ nval \in NormInputs
    /\ nres = <<>>

Normalize ==
    /\ pc = "normalize"
    /\ nres = <<>>
    /\ nres' = <<normalize_id(nval)>>
    /\ UNCHANGED <<pc, k, min_load, max_load, columns, exclusion_cols, advisory, reviewer_ids,
                   global_reviewers, loads, output_rows, warnings, output_file, error,
                   trace, nval>>

NextNorm == Normalize

SpecNorm == InitNorm /\ [][NextNorm]_vars

(***************************************************************************)
(* The end-to-end scenario: pool {1,2,3,4,5}, k = 3, minimum 1, maximum 2; *)
(* the first application excludes reviewer 1, up to ScenApps - 1 further   *)
(* applications follow.  The run starts in the loop, after the shuffle.    *)
(***************************************************************************)
ScenPool == <<1, 2, 3, 4, 5>>

\* Values of the random stream taken by the shuffle of the pool.
ScenShuffles == {0, 119}

\* Exclusion cells of the applications after the first.
ScenCells == {PyNaN, PyInt(1), PyFloat(20)}

InitScen ==
    /\ pc = "loop"
    /\ k = 3 /\ min_load = Some(1) /\ max_load = Some(2)
    /\ columns = {"Application ID", "Reviewer 1"}
    /\ exclusion_cols = get_exclusion_cols({"Application ID", "Reviewer 1"})
    /\ advisory = FALSE
    /\ reviewer_ids = ScenPool
    /\ \E r \in ScenShuffles : global_reviewers = shuffle(ScenPool, r)
    /\ loads = [rid \in Range(ScenPool) |-> 0]
    /\ output_rows = <<>>
    /\ warnings = <<>>
    /\ output_file = None
    /\ error = None
    /\ trace = <<>>
    /\ IdleInit

\* main, lines 179-215, for a record whose exclusion cells are drawn from cells.
ScenProcess(cells) ==
    /\ pc = "loop"
    /\ \E row \in [Range(exclusion_cols) -> cells] :
         \E excluded \in {build_exclusion_set(row, exclusion_cols)} :
            \E eligible \in {EligiblePool(global_reviewers, excluded)} :
                SelectFor(Len(trace) + 1, excluded, eligible)
    /\ UNCHANGED <<k, min_load, max_load, columns, exclusion_cols, advisory, reviewer_ids,
                   global_reviewers, output_file, nval, nres>>

\* The application X: the first record, excluding reviewer 1.
ScenFirst ==
    /\ trace = <<>>
    /\ ScenProcess({PyInt(1)})

\* A subsequent application.
ScenLater ==
    /\ trace # <<>>
    /\ Len(trace) < ScenApps
    /\ ScenProcess(ScenCells)

NextScen ==
    \/ ScenFirst
    \/ ScenLater
    \/ WriteOutput

SpecScen == InitScen /\ [][NextScen]_vars

\* The application table is finite: the loop over its records ends and main
\* goes on to line 217.
FairSpec == Spec /\ WF_vars(WriteOutput)

(***************************************************************************)
(* Properties of the allocation run.                                       *)
(***************************************************************************)
Apps == 1..Len(trace)

\* The capped pool the selector worked on for the i-th application.
PoolOf(i) == CappedPool(trace[i].eligible, trace[i].loads, max_load)

UnderOf(i) == Range(UnderMin(PoolOf(i), trace[i].loads, min_load))

PicksOf(i) == Range(trace[i].picks)

\* C1: for every application processed by the loop, the reviewers assigned
\* to it are disjoint from its exclusion set, and the run never ends with
\* the "Conflict detected" error.
C1_NoExcludedAssigned ==
    /\ \A i \in Apps : PicksOf(i) \cap trace[i].excluded = {}
    /\ error # Some("RuntimeError: Conflict detected")

C1_Witness ==
    /\ pc = "done"
    /\ \E i \in Apps :
         /\ trace[i].excluded \cap Range(global_reviewers) # {}
         /\ trace[i].picks # <<>>

\* C2: when a maximum load is configured, every entry of the load table is
\* at most max_load in every state of the run; the selector returns only
\* reviewers whose load at selection time is below max_load, and the commit
\* adds exactly one to each of them.
C2_LoadWithinMax ==
    max_load # None =>
        /\ \A rid \in DOMAIN loads : loads[rid] <= max_load[1]
        /\ \A i \in Apps : \A rid \in PicksOf(i) :
             /\ Get(trace[i].loads, rid) < max_load[1]
             /\ LET after == IF i < Len(trace) THEN trace[i + 1].loads ELSE loads
                IN after[rid] = Get(trace[i].loads, rid) + 1

\* A reviewer at capacity was eligible for an application, was left out, and
\* the application was under-filled for it.
C2_Witness ==
    /\ max_load # None
    /\ \E i \in Apps : \E rid \in Range(trace[i].eligible) :
         /\ trace[i].loads[rid] = max_load[1]
         /\ rid \notin PicksOf(i)
         /\ Len(trace[i].picks) < k
         /\ loads[rid] = max_load[1]

\* C3: the list returned by the selector has at most k entries and no
\* reviewer occurs in it twice.
C3_AtMostKDistinct ==
    \A i \in Apps :
        /\ Len(trace[i].picks) <= k
        /\ \A a, b \in 1..Len(trace[i].picks) :
             a # b => trace[i].picks[a] # trace[i].picks[b]

\* Soft-minimum branch, more than k candidates, k of them returned.
C3_Witness ==
    /\ ~MinDisabled(min_load)
    /\ \E i \in Apps :
         /\ Len(PoolOf(i)) > k
         /\ Len(trace[i].picks) = k

\* C4: with a positive minimum, if the capped eligible pool holds at least k
\* reviewers below the minimum then every selected reviewer is below the
\* minimum; and a reviewer at or above the minimum is selected only if all
\* under-minimum reviewers of the capped pool are selected too.
C4_SoftMinPreference ==
    ~MinDisabled(min_load) =>
        \A i \in Apps :
            /\ Cardinality(UnderOf(i)) >= k => PicksOf(i) \subseteq UnderOf(i)
            /\ PicksOf(i) \ UnderOf(i) # {} => UnderOf(i) \subseteq PicksOf(i)

\* Both groups are present, the under-minimum group suffices and is used.
C4_Witness ==
    /\ ~MinDisabled(min_load)
    /\ \E i \in Apps :
         /\ UnderOf(i) # {}
         /\ Range(PoolOf(i)) \ UnderOf(i) # {}
         /\ Cardinality(UnderOf(i)) >= k
         /\ trace[i].picks # <<>>

\* Applications whose filtered pool (exclusions and cap removed) is below k.
Starved == {i \in Apps : Len(PoolOf(i)) < k}

WarningsFor(i) == {j \in 1..Len(warnings) : warnings[j].app_id = i}

Completed ==
    /\ pc = "done"
    /\ error = None
    /\ output_file = Some(output_rows)
    /\ Len(output_rows) = Len(trace)

C5_StarvedState ==
    \A i \in Starved :
        /\ PicksOf(i) = Range(PoolOf(i))
        /\ Len(trace[i].picks) = Len(PoolOf(i))
        /\ error = None
        /\ i <= Len(output_rows)
        /\ output_rows[i].used_fallback = TRUE
        /\ Cardinality(WarningsFor(i)) = 1

\* C5: an application left with fewer than k reviewers after the exclusion
\* and the cap filter is assigned exactly that filtered pool, is flagged as
\* under-filled, gets one warning, raises no error, and the run goes on and
\* completes.
C5_Starvation ==
    /\ []C5_StarvedState
    /\ (Starved # {}) ~> Completed

\* A starved application (non-empty filtered pool) followed by another one.
C5_Witness ==
    /\ pc = "done"
    /\ \E i \in Starved : trace[i].picks # <<>> /\ i < Len(trace)

\* Number of the first n applications the reviewer was assigned to.
Assigned(rid, n) == Cardinality({j \in 1..n : j <= Len(trace) /\ rid \in PicksOf(j)})

C6_LoadState ==
    /\ pc \in {"loop", "done"} =>
         /\ DOMAIN loads = Range(global_reviewers)
         /\ \A rid \in DOMAIN loads : loads[rid] = Assigned(rid, Len(trace))
    /\ \A i \in Apps :
         /\ DOMAIN trace[i].loads = Range(global_reviewers)
         /\ \A rid \in Range(global_reviewers) : trace[i].loads[rid] = Assigned(rid, i - 1)

C6_LoadStep ==
    \A rid \in DOMAIN loads :
        /\ rid \in DOMAIN loads'
        /\ loads'[rid] >= loads[rid]
        /\ loads'[rid] - loads[rid] =
             IF Len(trace') > Len(trace) /\ rid \in Range(trace'[Len(trace')].picks)
             THEN 1 ELSE 0

\* C6: the load table starts at zero; when the selector is called for the
\* i-th application each load equals the number of applications 1..i-1 the
\* reviewer was assigned to; a commit raises the load of each chosen
\* reviewer by one and leaves the others; no load decreases.
C6_LoadBookkeeping ==
    /\ []C6_LoadState
    /\ [][C6_LoadStep]_vars

C6_Witness ==
    /\ Len(trace) = 2
    /\ \E a, b \in DOMAIN loads : loads[a] = 2 /\ loads[b] = 1

\* C8: a missing 'Application ID' column, an empty reviewer pool and a
\* detected conflict each end the run with an error, and after an error the
\* output table is never written; the table is written only once every
\* application has been processed.
C8_NoOutputOnFatal ==
    /\ (pc # "read" /\ "Application ID" \notin columns)
           => error = Some("ValueError: Application ID")
    /\ (pc \notin {"read", "load"} /\ "Application ID" \in columns /\ reviewer_ids = <<>>)
           => error = Some("ValueError: No reviewer IDs")
    /\ (\E i \in Apps : Conflict(trace[i].picks, trace[i].excluded))
           => error = Some("RuntimeError: Conflict detected")
    /\ error # None => pc = "error" /\ output_file = None
    /\ output_file # None => Completed

C8_Witness ==
    /\ error = Some("ValueError: No reviewer IDs")
    /\ output_file = None

(***************************************************************************)
(* Properties of normalize_id.                                             *)
(***************************************************************************)
\* C9: normalize_id returns none or a non-negative integer.
C9_NonNegative ==
    nres # <<>> => (nres[1] = None \/ nres[1][1] >= 0)

SevenEncodings ==
    { PyStr(<<"7">>), PyInt(7), PyFloat(70), PyStr(<<" ", "7", " ">>),
      PyStr(<<"7", ".", "0", "0">>) }

NoneEncodings ==
    { PyStr(<<"7", ".", "5">>), PyStr(<<"a", "b", "c">>), PyStr(<<>>), PyNone, PyNaN }

\* C10: "7", 7, 7.0, " 7 " and "7.00" normalise to 7; "7.5", "abc", the
\* empty text and a missing value normalise to none.
C10_Encodings ==
    nres # <<>> =>
        /\ nval \in SevenEncodings => nres[1] = Some(7)
        /\ nval \in NoneEncodings => nres[1] = None

C10_Witness ==
    /\ nval = PyStr(<<"7", ".", "0", "0">>)
    /\ nres = <<Some(7)>>

(***************************************************************************)
(* Further properties of the allocation run.                               *)
(***************************************************************************)
C11_Records ==
    /\ error = None => Len(output_rows) = Len(trace)
    /\ \A i \in 1..Len(output_rows) :
         /\ output_rows[i].app_id = i
         /\ DOMAIN output_rows[i].assigned = 1..k
         /\ \A j \in 1..k :
              output_rows[i].assigned[j] =
                 IF j <= Len(trace[i].picks) THEN PyInt(trace[i].picks[j])
                 ELSE PyStr(<<>>)
    /\ pc = "done" => output_file = Some(output_rows)

\* C11: a run without fatal error ends after processing every application
\* once, in input order, and emits one record per application in that
\* order, each with k slots: the chosen reviewers first, then empty texts.
C11_OneRecordPerApplication ==
    /\ []C11_Records
    /\ (pc = "loop") ~> Completed

\* Two applications written, one of them partly filled.
C11_Witness ==
    /\ pc = "done"
    /\ Len(output_file[1]) = 2
    /\ \E i \in Apps : 0 < Len(trace[i].picks) /\ Len(trace[i].picks) < k

\* C12: every assigned reviewer belongs to the application's eligible pool
\* (the pool minus its exclusion set) and so to the pool built at the start;
\* no identifier outside the pool is assigned or enters the load table.
C12_AssignedFromPool ==
    /\ \A i \in Apps :
         /\ PicksOf(i) \subseteq Range(global_reviewers) \ trace[i].excluded
         /\ PicksOf(i) \subseteq Range(reviewer_ids)
    /\ \A i \in 1..Len(output_rows) : \A j \in 1..k :
         output_rows[i].assigned[j].kind = "int"
             => output_rows[i].assigned[j].v \in Range(reviewer_ids)
    /\ DOMAIN loads \subseteq Range(reviewer_ids)
    /\ Range(global_reviewers) \subseteq Range(reviewer_ids)

\* An identifier outside the pool and one inside it are excluded, and a
\* reviewer is assigned.
C12_Witness ==
    /\ pc = "done"
    /\ \E i \in Apps :
         /\ trace[i].excluded \ Range(reviewer_ids) # {}
         /\ trace[i].excluded \cap Range(reviewer_ids) # {}
         /\ trace[i].picks # <<>>

\* C13: in the scenario, the first application is assigned exactly three
\* reviewers, all from {2,3,4,5}, and no load exceeds 2 after it nor after
\* any later application.
C13_Scenario ==
    /\ trace # <<>> =>
         /\ Len(trace[1].picks) = 3
         /\ Cardinality(PicksOf(1)) = 3
         /\ PicksOf(1) \subseteq {2, 3, 4, 5}
         /\ trace[1].excluded = {1}
         /\ error = None
    /\ \A rid \in DOMAIN loads : loads[rid] <= 2
    /\ \A i \in Apps : \A rid \in DOMAIN trace[i].loads : trace[i].loads[rid] <= 2

\* Three applications processed, a reviewer at load 2 left out of the third.
C13_Witness ==
    /\ pc = "done"
    /\ Len(trace) = 3
    /\ \E rid \in DOMAIN loads :
         /\ trace[3].loads[rid] = 2
         /\ rid \in Range(trace[3].eligible)
         /\ rid \notin PicksOf(3)

\* The table has the identifier column and none of the exclusion columns.
NoExclusionFields ==
    /\ pc # "read"
    /\ "Application ID" \in columns
    /\ columns \cap Range(EXCLUSION_COL_CANDIDATES) = {}

\* C14: without any exclusion column the run is not aborted for it: the
\* advisory is emitted, every exclusion set is empty, every eligible pool is
\* the whole pool, and every application is allocated under the load
\* constraints alone.
C14_NoExclusionColumns ==
    /\ NoExclusionFields =>
         /\ advisory = TRUE
         /\ exclusion_cols = <<>>
         /\ error \in {None, Some("ValueError: No reviewer IDs")}
         /\ pc = "error" => reviewer_ids = <<>>
         /\ \A i \in Apps :
              /\ trace[i].excluded = {}
              /\ trace[i].eligible = global_reviewers
              /\ Len(trace[i].picks) = Min(k, Len(CappedPool(global_reviewers,
                                                             trace[i].loads, max_load)))
              /\ output_rows[i].excluded_count = 0
    /\ advisory = TRUE => NoExclusionFields

C14_Witness ==
    /\ NoExclusionFields
    /\ advisory = TRUE
    /\ pc = "done"
    /\ Len(trace) = 2
    /\ trace[1].picks # <<>>
    /\ Len(trace[2].picks) < Len(global_reviewers)

\* C15: the selector returns exactly min(k, n) reviewers, n being the
\* number of eligible reviewers below the maximum load, in both branches;
\* an application is under-filled exactly when n < k.
C15_ExactSize ==
    \A i \in Apps :
        /\ Len(trace[i].picks) = Min(k, Len(PoolOf(i)))
        /\ i <= Len(output_rows) =>
             (output_rows[i].used_fallback <=> Len(PoolOf(i)) < k)
        /\ WarningsFor(i) # {} <=> Len(PoolOf(i)) < k

\* Soft-minimum branch: too few under-minimum reviewers, filled up to k from
\* the others.
C15_Witness ==
    /\ ~MinDisabled(min_load)
    /\ \E i \in Apps :
         /\ Cardinality(UnderOf(i)) < k
         /\ Len(PoolOf(i)) >= k
         /\ Len(trace[i].picks) = k
         /\ output_rows[i].used_fallback = FALSE

C16_CallFrame ==
    \A i \in Apps :
        /\ trace[i].eligible = EligiblePool(global_reviewers, trace[i].excluded)
        /\ trace[i].eligible_after = trace[i].eligible
        /\ trace[i].loads_after = trace[i].loads
        /\ i <= Len(output_rows) =>
             output_rows[i].eligible_pool_size = Len(trace[i].eligible)

\* The load table, once created (line 174), changes only in a loop iteration
\* that selected somebody, and then by the commit of that selection.
C16_LoadsStep ==
    (loads' # loads /\ pc # "shuffle") =>
        /\ pc = "loop"
        /\ Len(trace') = Len(trace) + 1
        /\ trace'[Len(trace')].loads_after = loads
        /\ trace'[Len(trace')].picks # <<>>
        /\ loads' = Commit(loads, trace'[Len(trace')].picks)

BelowMin == IF MinDisabled(min_load) THEN {}
            ELSE {rid \in DOMAIN loads : loads[rid] < min_load[1]}

\* C17: the minimum is a preference: whatever the loads are, the run can
\* write its output when the table is exhausted, it completes without error
\* also with reviewers below the minimum, no error is about the minimum, and
\* no application is selected for twice.
C17_MinNotEnforced ==
    /\ pc = "loop" => ENABLED WriteOutput
    /\ pc = "done" => Completed
    /\ error \in {None, Some("ValueError: Application ID"),
                  Some("ValueError: No reviewer IDs"),
                  Some("RuntimeError: Conflict detected")}
    /\ error = None => Len(trace) = Len(output_rows)

\* A completed run in which a reviewer excluded from every application stays
\* below the minimum while others were assigned.
C17_Witness ==
    /\ Completed
    /\ trace # <<>>
    /\ \E rid \in BelowMin :
         /\ \A i \in Apps : rid \in trace[i].excluded
         /\ \E other \in DOMAIN loads : loads[other] > loads[rid]

RECURSIVE SumOver(_, _)
SumOver(f, S) == IF S = {} THEN 0
                 ELSE LET x == CHOOSE y \in S : TRUE
                      IN f[x] + SumOver(f, S \ {x})

\* Number of non-empty assigned-reviewer slots of a record.
FilledSlots(row) == Cardinality({j \in DOMAIN row.assigned : row.assigned[j].kind = "int"})

EmittedSlots == SumOver([i \in 1..Len(output_rows) |-> FilledSlots(output_rows[i])],
                        1..Len(output_rows))

FullRows == {i \in 1..Len(output_rows) : FilledSlots(output_rows[i]) = k}

Capacity == Len(global_reviewers) * max_load[1]

\* C18: the loads add up to the number of non-empty slots emitted so far;
\* with a maximum load the sum is at most |pool| * max_load, so at most
\* floor(|pool| * max_load / k) applications are fully filled.
C18_Conservation ==
    pc \in {"loop", "done"} =>
        /\ SumOver(loads, DOMAIN loads) = EmittedSlots
        /\ max_load # None =>
             /\ SumOver(loads, DOMAIN loads) <= Capacity
             /\ k * Cardinality(FullRows) <= Capacity
             /\ Cardinality(FullRows) <= Capacity \div k

\* The capacity is used up: as many full applications as it allows, and one
\* more that is not full.
C18_Witness ==
    /\ pc = "done"
    /\ max_load # None
    /\ SumOver(loads, DOMAIN loads) = Capacity
    /\ FullRows # {}
    /\ Cardinality(FullRows) = Capacity \div k
    /\ Cardinality(FullRows) < Len(output_rows)

\* C19: 'Eligible Pool Size' is the size of the pool minus the exclusion
\* set, taken before the maximum-load filter and whatever the loads are;
\* 'Excluded Count' counts the excluded identifiers, in the pool or not; so
\* the pool size is at least |pool| minus the excluded count.
C19_ReportedSizes ==
    \A i \in 1..Len(output_rows) :
        /\ output_rows[i].eligible_pool_size =
               Cardinality(Range(global_reviewers) \ trace[i].excluded)
        /\ output_rows[i].excluded_count = Cardinality(trace[i].excluded)
        /\ output_rows[i].eligible_pool_size >=
               Len(global_reviewers) - output_rows[i].excluded_count
        /\ output_rows[i].eligible_pool_size >= Len(PoolOf(i))

\* One application is under-filled although its reported pool size is at
\* least k, and one reports more than |pool| minus its excluded count.
C19_Witness ==
    /\ \E i \in 1..Len(output_rows) :
         /\ output_rows[i].used_fallback = TRUE
         /\ output_rows[i].eligible_pool_size >= k
    /\ \E j \in 1..Len(output_rows) :
         /\ output_rows[j].excluded_count > 0
         /\ output_rows[j].eligible_pool_size >
                Len(global_reviewers) - output_rows[j].excluded_count

=============================================================================
